---- MODULE Spec2Model ----
(***************************************************************************)
(* qbels: a language server for the QBE intermediate language.             *)
(*                                                                         *)
(* The model covers src/src/main.rs: the document store (did_open,         *)
(* did_change, did_close, update_document), the identifier classifier      *)
(* (find_ident_node, is_renamable), the scope resolver                     *)
(* (find_funcdef_from_child_node), the query-based lookups (references,    *)
(* goto_definition) and the rename walk (rename_ident_from_node).          *)
(*                                                                         *)
(* A text is a sequence of tokens separated by one whitespace byte; a     *)
(* token is a record [sig, s]: sig is the sigil of a QBE name ("%" local, *)
(* "$" global, "@" label, ":" aggregate) or "" for a keyword, a type, a   *)
(* number or punctuation, and s is the text after the sigil.  A token of  *)
(* a text also carries at, the byte offset of its first byte, computed    *)
(* from the lengths of the tokens before it.  A position is a byte        *)
(* offset: the (row, column) points of the protocol and the byte offsets  *)
(* of the tree are two names of the same place in one text.               *)
(*                                                                         *)
(* The tree is the one the tree-sitter-qbe grammar is used with by the    *)
(* queries of main.rs: FUNCDEF (name: GLOBAL, params: FUNCDEF_PARAMS of   *)
(* FUNCDEF_PARAM (name: LOCAL)), BLOCK (label: LABEL) of INST             *)
(* (assignment: LOCAL), DATADEF (name: GLOBAL), TYPEDEF (AGGREGATE), and  *)
(* each of LOCAL, GLOBAL, LABEL, AGGREGATE is a sigil followed by         *)
(* name: IDENT.  A token outside every definition is wrapped in ERROR.    *)
(***************************************************************************)
EXTENDS Integers, Sequences, FiniteSets, TLC

VARIABLES
    documents,   \* Backend.documents: path -> Document [text, tree] or NoDoc
    response,    \* the reply to the request handled last, or NoResponse
    mutex,       \* holder of the tokio Mutex around documents, or Free
    waiters,     \* handlers queued on the mutex, first come first served
    handler,     \* handler slot -> the handler's position and arguments
    lastEvent    \* history: path -> the last completed document event

vars == <<documents, response, mutex, waiters, handler, lastEvent>>

-----------------------------------------------------------------------------
(* Tokens and texts *)

Kw(s) == [s |-> s, sig |-> ""]
Loc(n) == [s |-> n, sig |-> "%"]
Glo(n) == [s |-> n, sig |-> "$"]
Lab(n) == [s |-> n, sig |-> "@"]
Agg(n) == [s |-> n, sig |-> ":"]

IsName(tok) == tok.sig # ""

TokLen(tok) == Len(tok.s) + (IF IsName(tok) THEN 1 ELSE 0)

\* The tokens a..b laid out from byte offset at.
RECURSIVE LayoutFrom(_, _, _, _)
LayoutFrom(toks, a, b, at) ==
    IF a > b THEN << >>
    ELSE IF a = b THEN << [s |-> toks[a].s, sig |-> toks[a].sig, at |-> at] >>
    ELSE LET mid == (a + b) \div 2
             left == LayoutFrom(toks, a, mid, at)
             last == left[Len(left)]
         IN  left \o LayoutFrom(toks, mid + 1, b, last.at + TokLen(last) + 1)

\* The text made of the tokens: each token with its byte offset.
Layout(toks) ==
    LET ts == SubSeq(toks, 1, Len(toks))
    IN  LayoutFrom(ts, 1, Len(ts), 0)

\* The token without its offset.
Tok(t) == [s |-> t.s, sig |-> t.sig]

TokStart(text, i) == text[i].at

TokEnd(text, i) == text[i].at + TokLen(text[i])

TextLen(text) == IF Len(text) = 0 THEN 0 ELSE TokEnd(text, Len(text))

\* Node::utf8_text: the bytes of the text in [start, end).  Only ranges of
\* whole tokens and of the identifier part of a name are read by the code.
Utf8Text(text, start, end) ==
    LET at == {i \in 1..Len(text) :
                 /\ TokEnd(text, i) = end
                 /\ text[i].at \in {start, start - 1}}
    IN  IF at = {} THEN ""
        ELSE LET t == text[CHOOSE i \in at : TRUE]
             IN  IF IsName(t) /\ t.at = start - 1 THEN t.s
                 ELSE IF t.at = start THEN t.sig \o t.s
                 ELSE ""

-----------------------------------------------------------------------------
(* The parser: Backend::parse.  Nodes are listed in document order        *)
(* (preorder); a node's parent is the nearest earlier node one level up.  *)

Node(kind, start, end, depth, named, field) ==
    [start |-> start, end |-> end, kind |-> kind, depth |-> depth,
     named |-> named, field |-> field]

WrapperKind(sig) ==
    CASE sig = "%" -> "LOCAL"
      [] sig = "$" -> "GLOBAL"
      [] sig = "@" -> "LABEL"
      [] sig = ":" -> "AGGREGATE"
      [] OTHER -> "TOKEN"

\* The nodes of one token at the given depth: a name is a wrapper node over
\* its sigil and its IDENT; any other token is an anonymous leaf.
TokNodes(text, i, depth, field) ==
    LET s == TokStart(text, i)
        e == TokEnd(text, i)
    IN  IF IsName(text[i])
        THEN << Node(WrapperKind(text[i].sig), s, e, depth, TRUE, field),
                Node(text[i].sig, s, s + 1, depth + 1, FALSE, ""),
                Node("IDENT", s + 1, e, depth + 1, TRUE, "name") >>
        ELSE << Node(text[i].s, s, e, depth, FALSE, "") >>

\* Index of the first token equal to tok in i..Len(text), or 0.
FirstAt(text, i, tok) ==
    IF \E j \in i..Len(text) : Tok(text[j]) = tok
    THEN CHOOSE j \in i..Len(text) :
            Tok(text[j]) = tok /\ \A k \in i..(j - 1) : Tok(text[k]) # tok
    ELSE 0

IsFuncAt(text, i) ==
    /\ Tok(text[i]) = Kw("function")
    /\ i + 2 <= Len(text)
    /\ text[i + 1].sig = "$"
    /\ Tok(text[i + 2]) = Kw("(")
    /\ LET pc == FirstAt(text, i + 3, Kw(")"))
       IN  /\ pc # 0
           /\ pc + 1 <= Len(text)
           /\ Tok(text[pc + 1]) = Kw("{")
           /\ FirstAt(text, pc + 2, Kw("}")) # 0

IsDefAt(text, i, kw, sig) ==
    /\ Tok(text[i]) = Kw(kw)
    /\ i + 3 <= Len(text)
    /\ text[i + 1].sig = sig
    /\ Tok(text[i + 2]) = Kw("=")
    /\ Tok(text[i + 3]) = Kw("{")
    /\ FirstAt(text, i + 4, Kw("}")) # 0

\* Last token of the top-level item that starts at token i.
ItemEnd(text, i) ==
    IF IsFuncAt(text, i) \/ IsDefAt(text, i, "data", "$")
                         \/ IsDefAt(text, i, "type", ":")
    THEN FirstAt(text, i, Kw("}"))
    ELSE i

\* The tokens i..e, each at the given depth, with no field.
RECURSIVE PlainNodes(_, _, _, _)
PlainNodes(text, i, e, depth) ==
    IF i > e THEN << >>
    ELSE TokNodes(text, i, depth, "") \o PlainNodes(text, i + 1, e, depth)

\* FUNCDEF_PARAM nodes of the tokens p..e (between the parentheses).
RECURSIVE ParseParams(_, _, _)
ParseParams(text, p, e) ==
    IF p > e THEN << >>
    ELSE IF Tok(text[p]) = Kw(",")
    THEN TokNodes(text, p, 3, "") \o ParseParams(text, p + 1, e)
    ELSE IF p + 1 <= e /\ text[p + 1].sig = "%"
    THEN << Node("FUNCDEF_PARAM", TokStart(text, p), TokEnd(text, p + 1),
                 3, TRUE, "") >>
         \o TokNodes(text, p, 4, "")
         \o TokNodes(text, p + 1, 4, "name")
         \o ParseParams(text, p + 2, e)
    ELSE TokNodes(text, p, 3, "") \o ParseParams(text, p + 1, e)

\* A label token declares a block unless it is the target of a jump.
IsLabelDecl(text, i) ==
    /\ text[i].sig = "@"
    /\ i > 1
    /\ Tok(text[i - 1]) \notin {Kw("jmp"), Kw(",")}

IsInstStart(text, i) ==
    \/ Tok(text[i]) \in {Kw("jmp"), Kw("jnz"), Kw("ret"), Kw("call")}
    \/ /\ text[i].sig = "%"
       /\ i + 1 <= Len(text)
       /\ Tok(text[i + 1]) = Kw("=w")

\* Last token in i..e before the next token j > i with Start(text, j).
SpanEnd(text, i, e, Start(_, _)) ==
    IF \E j \in (i + 1)..e : Start(text, j)
    THEN (CHOOSE j \in (i + 1)..e :
             Start(text, j) /\ \A k \in (i + 1)..(j - 1) : ~Start(text, k)) - 1
    ELSE e

\* The tokens i..e of one instruction: a name followed by "=w" is the
\* instruction's assignment, every other token is an operand or a keyword.
RECURSIVE InstChildren(_, _, _, _)
InstChildren(text, i, e, first) ==
    IF i > e THEN << >>
    ELSE TokNodes(text, i, 4,
                  IF i = first /\ text[i].sig = "%" /\ i + 1 <= Len(text)
                       /\ Tok(text[i + 1]) = Kw("=w")
                  THEN "assignment" ELSE "")
         \o InstChildren(text, i + 1, e, first)

RECURSIVE ParseInsts(_, _, _)
ParseInsts(text, i, e) ==
    IF i > e THEN << >>
    ELSE LET ie == SpanEnd(text, i, e, IsInstStart)
         IN  << Node("INST", TokStart(text, i), TokEnd(text, ie), 3, TRUE, "") >>
             \o InstChildren(text, i, ie, i)
             \o ParseInsts(text, ie + 1, e)

RECURSIVE ParseBlocks(_, _, _)
ParseBlocks(text, i, e) ==
    IF i > e THEN << >>
    ELSE LET be == SpanEnd(text, i, e, IsLabelDecl)
         IN  << Node("BLOCK", TokStart(text, i), TokEnd(text, be), 2, TRUE, "") >>
             \o (IF IsLabelDecl(text, i)
                 THEN TokNodes(text, i, 3, "label") \o ParseInsts(text, i + 1, be)
                 ELSE ParseInsts(text, i, be))
             \o ParseBlocks(text, be + 1, e)

ParseFuncdef(text, i, e) ==
    LET pc == FirstAt(text, i + 3, Kw(")"))
    IN  << Node("FUNCDEF", TokStart(text, i), TokEnd(text, e), 1, TRUE, "") >>
        \o TokNodes(text, i, 2, "")
        \o TokNodes(text, i + 1, 2, "name")
        \o << Node("FUNCDEF_PARAMS", TokStart(text, i + 2), TokEnd(text, pc),
                   2, TRUE, "params") >>
        \o TokNodes(text, i + 2, 3, "")
        \o ParseParams(text, i + 3, pc - 1)
        \o TokNodes(text, pc, 3, "")
        \o TokNodes(text, pc + 1, 2, "")
        \o ParseBlocks(text, pc + 2, e - 1)
        \o TokNodes(text, e, 2, "")

ParseDef(text, i, e, kind, field) ==
    << Node(kind, TokStart(text, i), TokEnd(text, e), 1, TRUE, "") >>
    \o TokNodes(text, i, 2, "")
    \o TokNodes(text, i + 1, 2, field)
    \o PlainNodes(text, i + 2, e, 2)

RECURSIVE ParseItems(_, _)
ParseItems(text, i) ==
    IF i > Len(text) THEN << >>
    ELSE LET e == ItemEnd(text, i)
         IN  (CASE IsFuncAt(text, i) -> ParseFuncdef(text, i, e)
                [] IsDefAt(text, i, "data", "$") ->
                       ParseDef(text, i, e, "DATADEF", "name")
                [] IsDefAt(text, i, "type", ":") ->
                       ParseDef(text, i, e, "TYPEDEF", "")
                [] OTHER ->
                       << Node("ERROR", TokStart(text, i), TokEnd(text, i),
                               1, TRUE, "") >>
                       \o TokNodes(text, i, 2, ""))
             \o ParseItems(text, e + 1)

\* Index of the parent of node n of the preorder list: the nearest earlier
\* node one level up (0 for the root).
RECURSIVE ParentOf(_, _, _)
ParentOf(flat, n, j) ==
    IF j < 1 THEN 0
    ELSE IF flat[j].depth = flat[n].depth - 1 THEN j
    ELSE ParentOf(flat, n, j - 1)

\* Backend::parse: the syntax tree of a text; node 1 is the root.
Parse(text) ==
    LET flat == << Node("SOURCE", 0, TextLen(text), 0, TRUE, "") >>
                \o ParseItems(text, 1)
        tree == [n \in 1..Len(flat) |->
                    [start |-> flat[n].start, end |-> flat[n].end,
                     kind |-> flat[n].kind, named |-> flat[n].named,
                     field |-> flat[n].field,
                     parent |-> ParentOf(flat, n, n - 1)]]
    IN  SubSeq(tree, 1, Len(flat))

-----------------------------------------------------------------------------
(* Tree navigation (tree_sitter::Node) *)

Root == 1

\* Node::children: every child of n, anonymous ones included, in order.
Children(tree, n) ==
    SelectSeq([m \in 1..Len(tree) |-> m], LAMBDA m : tree[m].parent = n)

\* Node::named_child(0), or 0 when the node has no named child.
NamedChild0(tree, n) ==
    LET named == SelectSeq(Children(tree, n), LAMBDA m : tree[m].named)
    IN  IF Len(named) = 0 THEN 0 ELSE named[1]

\* Node::named_descendant_for_point_range(pos, pos + 1): the smallest named
\* node that spans the range; the root when no smaller node does.
NamedDescendant(tree, pos) ==
    LET covers == {n \in 1..Len(tree) :
                     tree[n].named /\ tree[n].start <= pos
                                   /\ pos + 1 <= tree[n].end}
    IN  IF covers = {} THEN Root
        ELSE CHOOSE n \in covers : \A m \in covers : m <= n

-----------------------------------------------------------------------------
(* Identifier classifier and scope resolver *)

\* IdentKind::kind
KindTag(kind) ==
    CASE kind = "Local" -> "LOCAL"
      [] kind = "Global" -> "GLOBAL"
      [] kind = "Aggregete" -> "AGGREGATE"
      [] kind = "Label" -> "LABEL"
      [] OTHER -> "NONE"

\* Backend::is_renamable: the IdentKind of a wrapper node, or "None".
is_renamable(tree, n) ==
    CASE tree[n].kind = "LOCAL" -> "Local"
      [] tree[n].kind = "GLOBAL" -> "Global"
      [] tree[n].kind = "AGGREGATE" -> "Aggregete"
      [] tree[n].kind = "LABEL" -> "Label"
      [] OTHER -> "None"

NoIdent == [kind |-> "None", node |-> 0]

\* Backend::find_ident_node: (identifier node, kind) or NoIdent.
find_ident_node(tree, n) ==
    IF is_renamable(tree, n) # "None"
    THEN IF NamedChild0(tree, n) = 0 THEN NoIdent
         ELSE [kind |-> is_renamable(tree, n), node |-> NamedChild0(tree, n)]
    ELSE IF tree[n].kind = "IDENT" /\ tree[n].parent # 0
              /\ is_renamable(tree, tree[n].parent) # "None"
    THEN [kind |-> is_renamable(tree, tree[n].parent), node |-> n]
    ELSE NoIdent

\* Backend::find_funcdef_from_child_node: the node itself or its nearest
\* ancestor of kind FUNCDEF, or 0.
RECURSIVE find_funcdef_from_child_node(_, _)
find_funcdef_from_child_node(tree, child) ==
    IF child = 0 THEN 0
    ELSE IF tree[child].kind = "FUNCDEF" THEN child
    ELSE find_funcdef_from_child_node(tree, tree[child].parent)

NodeText(tree, text, n) == Utf8Text(text, tree[n].start, tree[n].end)

-----------------------------------------------------------------------------
(* Rename planner *)

\* Faulty variant: the walk looks at the children of the node and no deeper.
rename_ident_flat(old_name, node, kind, tree, src) ==
    LET hits == SelectSeq(Children(tree, node),
                    LAMBDA c : /\ tree[c].kind = KindTag(kind)
                               /\ NodeText(tree, src, NamedChild0(tree, c)) = old_name)
    IN  [i \in 1..Len(hits) |-> NamedChild0(tree, hits[i])]

\* Backend::rename_ident_from_node: the identifier nodes of the wrappers of
\* the kind named old_name below node, in document order.  A wrapper of the
\* kind is not descended into; every other child is.
RECURSIVE rename_ident_from_node(_, _, _, _, _)
RECURSIVE RenameChildren(_, _, _, _, _, _)
\* Faulty variant: the walk returns after its first hit.
rename_ident_first(old_name, node, kind, tree, src) ==
    LET all == RenameChildren(old_name, Children(tree, node), 1, kind, tree, src)
    IN  IF Len(all) = 0 THEN << >> ELSE << all[1] >>

rename_ident_from_node(old_name, node, kind, tree, src) ==
    RenameChildren(old_name, Children(tree, node), 1, kind, tree, src)

RenameChildren(old_name, kids, i, kind, tree, src) ==
    IF i > Len(kids) THEN << >>
    ELSE (IF tree[kids[i]].kind = KindTag(kind)
          THEN IF NodeText(tree, src, NamedChild0(tree, kids[i])) = old_name
               THEN << NamedChild0(tree, kids[i]) >>
               ELSE << >>
          ELSE rename_ident_from_node(old_name, kids[i], kind, tree, src))
         \o RenameChildren(old_name, kids, i + 1, kind, tree, src)

-----------------------------------------------------------------------------
(* Query evaluator (tree_sitter::Query, QueryCursor) *)

Step(kind, field) == [kind |-> kind, field |-> field]

\* Node n matches step i of the path, and its ancestors the steps before it.
\* A step with a field matches only a child in that field.
RECURSIVE PathMatches(_, _, _, _)
PathMatches(tree, n, path, i) ==
    /\ n # 0
    /\ tree[n].kind = path[i].kind
    /\ (path[i].field = "" \/ tree[n].field = path[i].field)
    /\ (i = 1 \/ PathMatches(tree, tree[n].parent, path, i - 1))

\* The node matching the first step of the path that ends at node n.
RECURSIVE PatternRoot(_, _, _)
PatternRoot(tree, n, i) ==
    IF i = 1 THEN n ELSE PatternRoot(tree, tree[n].parent, i - 1)

\* name: (IDENT) @name (#eq? @name "name")
HasNameIdent(tree, text, n, name) ==
    \E c \in 1..Len(tree) :
        /\ tree[c].parent = n
        /\ tree[c].kind = "IDENT"
        /\ tree[c].field = "name"
        /\ NodeText(tree, text, c) = name

\* The range of a cursor with no range set; it ends beyond every text.
WholeRange == [start |-> 0, end |-> 2147483647]

\* QueryCursor::set_byte_range: a match is reported when the node of its
\* pattern's first step intersects the range.
Intersects(tree, n, range) ==
    tree[n].end > range.start /\ tree[n].start < range.end

\* The wrapper nodes captured by the matches of the patterns, in document
\* order.  Each pattern ends in a wrapper with name: (IDENT) @name.
QueryMatches(tree, text, patterns, name, range) ==
    SelectSeq([m \in 1..Len(tree) |-> m],
              LAMBDA w : \E path \in patterns :
                  /\ PathMatches(tree, w, path, Len(path))
                  /\ HasNameIdent(tree, text, w, name)
                  /\ Intersects(tree, PatternRoot(tree, w, Len(path)), range))

\* QueryCursor::captures yields a match once for each of its two captures
\* (@name and the wrapper); the loop over next.0.captures keeps the capture
\* whose kind is the wrapper's, so every wrapper is pushed twice.
RECURSIVE CapturedNodes(_)
CapturedNodes(matches) ==
    IF Len(matches) = 0 THEN << >>
    ELSE << Head(matches), Head(matches) >> \o CapturedNodes(Tail(matches))

\* Itertools::unique: the first occurrence of every element.
RECURSIVE Unique(_)
Unique(seq) ==
    IF Len(seq) = 0 THEN << >>
    ELSE LET init == Unique(SubSeq(seq, 1, Len(seq) - 1))
             last == seq[Len(seq)]
         IN  IF \E i \in 1..Len(init) : init[i] = last THEN init
             ELSE Append(init, last)

Location(path, tree, n) ==
    [start |-> tree[n].start, end |-> tree[n].end, uri |-> path]

Locations(path, tree, nodes) ==
    Unique([i \in 1..Len(nodes) |-> Location(path, tree, nodes[i])])

\* Faulty variant: the reference query is never restricted.
ReferencesRangeWhole(tree, ident, kind) == WholeRange

\* The range the reference query is restricted to.
ReferencesRange(tree, ident, kind) ==
    IF kind \in {"Local", "Label"}
    THEN LET funcdef == find_funcdef_from_child_node(tree, ident)
         IN  [start |-> tree[funcdef].start, end |-> tree[funcdef].end]
    ELSE WholeRange

\* The range the definition query is restricted to.
DefinitionRange(tree, ident, kind) ==
    IF kind \in {"Local", "Label"}
    THEN LET funcdef == find_funcdef_from_child_node(tree, ident)
         IN  [start |-> tree[funcdef].start, end |-> tree[ident].end]
    ELSE WholeRange

ReferencePatterns(kind) == { << Step(KindTag(kind), "") >> }

DefinitionPatterns(kind) ==
    CASE kind = "Local" ->
           { << Step("INST", ""), Step("LOCAL", "assignment") >>,
             << Step("FUNCDEF", ""), Step("FUNCDEF_PARAMS", "params"),
                Step("FUNCDEF_PARAM", ""), Step("LOCAL", "name") >> }
      [] kind = "Label" ->
           { << Step("BLOCK", ""), Step("LABEL", "label") >> }
      [] kind = "Global" ->
           { << Step("FUNCDEF", ""), Step("GLOBAL", "name") >>,
             << Step("DATADEF", ""), Step("GLOBAL", "name") >> }
      [] OTHER ->
           { << Step("TYPEDEF", ""), Step("AGGREGATE", "") >> }

-----------------------------------------------------------------------------
(* Request handlers, as functions of the store and the request *)

NoDoc == [text |-> << >>, tree |-> << >>, present |-> FALSE]
Document(text, tree) == [text |-> text, tree |-> tree, present |-> TRUE]

OkNone == [tag |-> "None", code |-> "", value |-> << >>]
OkSome(v) == [tag |-> "Some", code |-> "", value |-> v]
Err(code) == [tag |-> "Err", code |-> code, value |-> << >>]

\* Faulty variant: rename outside a function answers the internal error.
RenameNoScopeInternal == [tag |-> "Err", code |-> "InternalError", value |-> << >>]

\* Error::invalid_params of rename, and what rename answers when the node
\* under the cursor is no identifier.
RenameNoScope == Err("InvalidParams")
RenameNotIdent == Err("InternalError")

CursorIdent(doc, pos) ==
    find_ident_node(doc.tree, NamedDescendant(doc.tree, pos))

prepare_rename(docs, path, pos) ==
    LET doc == docs[path]
        found == CursorIdent(doc, pos)
    IN  IF ~doc.present THEN Err("InternalError")
        ELSE IF found = NoIdent THEN OkNone
        ELSE OkSome(<< [start |-> doc.tree[found.node].start,
                        end |-> doc.tree[found.node].end,
                        placeholder |-> NodeText(doc.tree, doc.text, found.node)] >>)

\* Faulty variant: every rename walks the whole document.
RenameFromRoot(tree, node, kind) == Root

\* The node the rename walk starts from, or 0 (a local or a label outside
\* every FUNCDEF).
RenameFrom(tree, node, kind) ==
    IF kind \in {"Local", "Label"}
    THEN find_funcdef_from_child_node(tree, node)
    ELSE Root

\* Faulty variant: the edit covers the wrapper, sigil included.
TextEditWrapper(tree, n, new_name) ==
    [start |-> tree[tree[n].parent].start, end |-> tree[tree[n].parent].end,
     new_text |-> new_name]

TextEdit(tree, n, new_name) ==
    [start |-> tree[n].start, end |-> tree[n].end, new_text |-> new_name]

rename(docs, path, pos, new_name) ==
    LET doc == docs[path]
        found == CursorIdent(doc, pos)
        rename_from == RenameFrom(doc.tree, found.node, found.kind)
        old_name == NodeText(doc.tree, doc.text, found.node)
        nodes_to_rename ==
            rename_ident_from_node(old_name, rename_from, found.kind,
                                   doc.tree, doc.text)
    IN  IF ~doc.present THEN Err("InternalError")
        ELSE IF found = NoIdent THEN RenameNotIdent
        ELSE IF rename_from = 0 THEN RenameNoScope
        ELSE OkSome([i \in 1..Len(nodes_to_rename) |->
                        TextEdit(doc.tree, nodes_to_rename[i], new_name)])

references(docs, path, pos) ==
    LET doc == docs[path]
        found == CursorIdent(doc, pos)
        ident_name == NodeText(doc.tree, doc.text, found.node)
        nodes == CapturedNodes(
                    QueryMatches(doc.tree, doc.text,
                                 ReferencePatterns(found.kind), ident_name,
                                 ReferencesRange(doc.tree, found.node, found.kind)))
        locs == Locations(path, doc.tree, nodes)
    IN  IF ~doc.present THEN Err("InternalError")
        ELSE IF found = NoIdent THEN OkNone
        ELSE IF found.kind \in {"Local", "Label"}
                /\ find_funcdef_from_child_node(doc.tree, found.node) = 0
        THEN OkNone
        ELSE IF Len(locs) = 0 THEN OkNone
        ELSE OkSome(locs)

goto_definition(docs, path, pos) ==
    LET doc == docs[path]
        found == CursorIdent(doc, pos)
        ident_name == NodeText(doc.tree, doc.text, found.node)
        nodes == CapturedNodes(
                    QueryMatches(doc.tree, doc.text,
                                 DefinitionPatterns(found.kind), ident_name,
                                 DefinitionRange(doc.tree, found.node, found.kind)))
        locs == Locations(path, doc.tree, nodes)
    IN  IF ~doc.present THEN Err("InternalError")
        ELSE IF found = NoIdent THEN OkNone
        ELSE IF found.kind \in {"Local", "Label"}
                /\ find_funcdef_from_child_node(doc.tree, found.node) = 0
        THEN OkNone
        ELSE IF Len(locs) = 0 THEN OkNone
        ELSE OkSome(locs)

Handle(op, docs, path, pos, new_name) ==
    CASE op = "prepare_rename" -> prepare_rename(docs, path, pos)
      [] op = "rename" -> rename(docs, path, pos, new_name)
      [] op = "references" -> references(docs, path, pos)
      [] OTHER -> goto_definition(docs, path, pos)

\* documents.insert(path, Document { text, tree }): both fields at once.
insert_document(docs, path, text, tree) ==
    [docs EXCEPT ![path] = Document(text, tree)]

\* Backend::update_document: the store with the text and its parse at path.
update_document(docs, path, text) ==
    insert_document(docs, path, text, Parse(text))

\* Faulty variant: did_close leaves the store as it is.
remove_nothing(docs, path) == docs

\* did_close: the store without path.
remove_document(docs, path) == [docs EXCEPT ![path] = NoDoc]

-----------------------------------------------------------------------------
(* The texts the editor sends *)

\* function $f(:t %x) { @s  %yy =w add %x, $d  jmp @e  @e  ret %yy }
FuncF ==
    << Kw("function"), Glo("f"), Kw("("), Agg("t"), Loc("x"), Kw(")"), Kw("{"),
       Lab("s"), Loc("yy"), Kw("=w"), Kw("add"), Loc("x"), Kw(","), Glo("d"),
       Kw("jmp"), Lab("e"),
       Lab("e"), Kw("ret"), Loc("yy"),
       Kw("}") >>

\* function $g() { @s  %yy =w copy %x  %x =w copy 1  jnz %x, @e, @s  @e  ret }
FuncG ==
    << Kw("function"), Glo("g"), Kw("("), Kw(")"), Kw("{"),
       Lab("s"), Loc("yy"), Kw("=w"), Kw("copy"), Loc("x"),
       Loc("x"), Kw("=w"), Kw("copy"), Kw("1"),
       Kw("jnz"), Loc("x"), Kw(","), Lab("e"), Kw(","), Lab("s"),
       Lab("e"), Kw("ret"),
       Kw("}") >>

\* data $d = { l $g }  type :t = { w }
Defs ==
    << Kw("data"), Glo("d"), Kw("="), Kw("{"), Kw("l"), Glo("g"), Kw("}"),
       Kw("type"), Agg("t"), Kw("="), Kw("{"), Kw("w"), Kw("}") >>

\* Names outside every definition (a malformed document): %x @s $g
Stray == << Loc("x"), Lab("s"), Glo("g") >>

Items == {FuncF, FuncG, Defs, Stray}

\* Longest document, in fragments of Items.
MaxItems == 2

RECURSIVE TextsOf(_)
TextsOf(n) ==
    IF n = 0 THEN { << >> }
    ELSE TextsOf(n - 1)
         \cup { t \o item : t \in TextsOf(n - 1), item \in Items }

Texts == {Layout(toks) : toks \in TextsOf(MaxItems)}

NewNames == {"x", "zzz"}

Paths == {"a.ssa", "b.ssa"}

CorePath == "a.ssa"

\* The content changes of a did_change: none, or full texts (sync kind FULL).
ContentChanges(texts) ==
    { << >> } \cup { << t >> : t \in texts }

Requests == {"prepare_rename", "rename", "references", "goto_definition"}

\* Cursor positions: every byte of the text and the byte after its end.
Positions(text) == 0..TextLen(text)

-----------------------------------------------------------------------------
(* One editor session (Spec): a notification or a request that finds the  *)
(* mutex free runs to its end or to its next await in one step.  Only     *)
(* rename has an await after the lock, client.log_message(..).await; a    *)
(* handler received while rename is suspended there queues on the mutex.  *)

NoResponse ==
    [pos |-> 0, path |-> "a.ssa", new_name |-> "", op |-> "none", result |-> OkNone]

NoEvent == [text |-> << >>, kind |-> "none"]

Free == "free"

Slots == {"h1", "h2"}

Idle ==
    [text |-> << >>, pc |-> "idle", tree |-> << >>, pos |-> 0,
     path |-> "a.ssa", new_name |-> "", op |-> "none", seen |-> NoDoc]

Init ==
    /\ documents = [p \in Paths |-> NoDoc]
    /\ response = NoResponse
    /\ mutex = Free
    /\ waiters = << >>
    /\ handler = [h \in Slots |-> Idle]
    /\ lastEvent = [p \in Paths |-> NoEvent]

\* The text did_change takes from its content changes: the first one, or
\* the empty text when there is none.
ChangedText(content_changes) ==
    IF Len(content_changes) = 0 THEN << >> ELSE content_changes[1]

\* An open and a change are recorded alike: both store the buffer's text.
Updated(text) == [text |-> text, kind |-> "update"]
Closed == [text |-> << >>, kind |-> "close"]

\* documents.lock().await returns at once: the mutex is free and nobody
\* waits for it.
Uncontended == mutex = Free /\ waiters = << >>

\* did_open: the store takes the text of the opened buffer.
DidOpen(path, text) ==
    /\ response = NoResponse
    /\ Uncontended
    /\ documents' = update_document(documents, path, text)
    /\ lastEvent' = [lastEvent EXCEPT ![path] = Updated(text)]
    /\ UNCHANGED <<response, mutex, waiters, handler>>

\* did_change: the store takes the text of the first content change.
DidChange(path, content_changes) ==
    /\ response = NoResponse
    /\ Uncontended
    /\ documents' = update_document(documents, path, ChangedText(content_changes))
    /\ lastEvent' = [lastEvent EXCEPT ![path] = Updated(ChangedText(content_changes))]
    /\ UNCHANGED <<response, mutex, waiters, handler>>

\* did_close: the store drops the path.
DidClose(path) ==
    /\ response = NoResponse
    /\ Uncontended
    /\ documents' = remove_document(documents, path)
    /\ lastEvent' = [lastEvent EXCEPT ![path] = Closed]
    /\ UNCHANGED <<response, mutex, waiters, handler>>

\* prepare_rename, references or goto_definition, from the lock to the
\* reply: no await is left after the lock.
Request(op, path, pos, new_name) ==
    /\ response = NoResponse
    /\ Uncontended
    /\ op \in Requests \ {"rename"}
    /\ response' = [pos |-> pos, path |-> path, new_name |-> new_name, op |-> op,
                    result |-> Handle(op, documents, path, pos, new_name)]
    /\ UNCHANGED <<documents, mutex, waiters, handler, lastEvent>>

\* The editor takes the reply.
Reply ==
    /\ response # NoResponse
    /\ response' = NoResponse
    /\ UNCHANGED <<documents, mutex, waiters, handler, lastEvent>>

-----------------------------------------------------------------------------
(* What the claims speak of, stated on the tree without the code's walks *)

\* The document and the classified occurrence of the request answered last.
Doc == documents[response.path]
Found == CursorIdent(Doc, response.pos)
Answered(op) == response.op = op /\ Doc.present
OldName == NodeText(Doc.tree, Doc.text, Found.node)

RECURSIVE Ancestors(_, _)
Ancestors(tree, n) ==
    IF tree[n].parent = 0 THEN {}
    ELSE {tree[n].parent} \cup Ancestors(tree, tree[n].parent)

\* The FUNCDEF nodes above node n.
EnclosingFuncdefs(tree, n) ==
    {a \in Ancestors(tree, n) : tree[a].kind = "FUNCDEF"}

\* The wrapper nodes of the kind whose identifier reads name.
Wrappers(tree, text, kind, name) ==
    {w \in 1..Len(tree) :
        /\ tree[w].kind = KindTag(kind)
        /\ \E c \in 1..Len(tree) :
              /\ tree[c].parent = w /\ tree[c].kind = "IDENT"
              /\ Utf8Text(text, tree[c].start, tree[c].end) = name}

IdentOf(tree, w) ==
    CHOOSE c \in 1..Len(tree) : tree[c].parent = w /\ tree[c].kind = "IDENT"

RangeOf(tree, n) == << tree[n].start, tree[n].end >>

Ranges(seq) == {<< seq[i].start, seq[i].end >> : i \in 1..Len(seq)}

\* The occurrences of the cursor's symbol in its scope: below the enclosing
\* FUNCDEF for a local or a label, in the whole document otherwise.
ScopeWrappers ==
    {w \in Wrappers(Doc.tree, Doc.text, Found.kind, OldName) :
        Found.kind \in {"Local", "Label"} =>
            EnclosingFuncdefs(Doc.tree, w) = EnclosingFuncdefs(Doc.tree, Found.node)}

FunctionScoped == Found # NoIdent /\ Found.kind \in {"Local", "Label"}
DocumentScoped == Found # NoIdent /\ Found.kind \in {"Global", "Aggregete"}
InFunction == EnclosingFuncdefs(Doc.tree, Found.node) # {}

\* The editor applies the edits of a WorkspaceEdit to a text: an edit over
\* the identifier of a name replaces the identifier, an edit over a whole
\* token replaces the token.
ApplyEdits(text, edits) ==
    LET ranges == Ranges(edits)
    IN  Layout([i \in 1..Len(text) |->
              IF IsName(text[i])
                 /\ << TokStart(text, i) + 1, TokEnd(text, i) >> \in ranges
              THEN [s |-> edits[1].new_text, sig |-> text[i].sig]
              ELSE IF << TokStart(text, i), TokEnd(text, i) >> \in ranges
              THEN Kw(edits[1].new_text)
              ELSE Tok(text[i])])

\* The token under the cursor (0 between tokens).
TokenAt(text, pos) ==
    IF \E i \in 1..Len(text) : TokStart(text, i) <= pos /\ pos < TokEnd(text, i)
    THEN CHOOSE i \in 1..Len(text) : TokStart(text, i) <= pos /\ pos < TokEnd(text, i)
    ELSE 0

-----------------------------------------------------------------------------
(* Claims on one editor session (Spec) *)

\* C1 (as claimed): when the node under the cursor is not classifiable, each
\* of prepare_rename, rename, references and goto_definition on an open
\* document answers Ok(None), never an error.
C1_UnclassifiableIsNone ==
    (response.op \in Requests /\ Doc.present /\ Found = NoIdent)
        => response.result = OkNone

\* C2: for a Local or Label under the cursor, every location references
\* returns lies within the enclosing FUNCDEF, and no occurrence of the same
\* kind and name in another function is returned.
C2_ReferencesInScope ==
    (Answered("references") /\ FunctionScoped /\ response.result.tag = "Some")
        => /\ \A f \in EnclosingFuncdefs(Doc.tree, Found.node) :
                \A r \in Ranges(response.result.value) :
                    Doc.tree[f].start <= r[1] /\ r[2] <= Doc.tree[f].end
           /\ \A w \in Wrappers(Doc.tree, Doc.text, Found.kind, OldName) :
                w \notin ScopeWrappers
                    => RangeOf(Doc.tree, w) \notin Ranges(response.result.value)

C2_Witness ==
    /\ Answered("references") /\ FunctionScoped
    /\ response.result.tag = "Some"
    /\ Len(response.result.value) >= 2
    /\ Wrappers(Doc.tree, Doc.text, Found.kind, OldName) \ ScopeWrappers # {}

\* C3: renaming a Local or Label edits exactly the identifiers of that kind
\* and name below the enclosing FUNCDEF of the cursor occurrence, and
\* nothing outside that function.
C3_RenameInScope ==
    (Answered("rename") /\ FunctionScoped /\ response.result.tag = "Some")
        => /\ Ranges(response.result.value)
                = {RangeOf(Doc.tree, IdentOf(Doc.tree, w)) : w \in ScopeWrappers}
           /\ \A i \in 1..Len(response.result.value) :
                response.result.value[i].new_text = response.new_name

C3_Witness ==
    /\ Answered("rename") /\ FunctionScoped
    /\ response.result.tag = "Some"
    /\ Len(response.result.value) >= 2
    /\ Wrappers(Doc.tree, Doc.text, Found.kind, OldName) \ ScopeWrappers # {}

\* C4: renaming a Global or Aggregate makes exactly one edit for every
\* wrapper of that kind in the document whose identifier is the old name,
\* inside a function or not; the edit covers the identifier and carries the
\* new name.
C4_RenameWholeDocument ==
    (Answered("rename") /\ DocumentScoped)
        => /\ response.result.tag = "Some"
           /\ Ranges(response.result.value)
                = {RangeOf(Doc.tree, IdentOf(Doc.tree, w)) :
                      w \in Wrappers(Doc.tree, Doc.text, Found.kind, OldName)}
           /\ Len(response.result.value)
                = Cardinality(Wrappers(Doc.tree, Doc.text, Found.kind, OldName))
           /\ \A i \in 1..Len(response.result.value) :
                response.result.value[i].new_text = response.new_name

C4_Witness ==
    /\ Answered("rename") /\ DocumentScoped
    /\ response.result.tag = "Some"
    /\ \E w1, w2 \in Wrappers(Doc.tree, Doc.text, Found.kind, OldName) :
          /\ EnclosingFuncdefs(Doc.tree, w1) # {}
          /\ Doc.tree[Doc.tree[w2].parent].kind \in {"DATADEF", "TYPEDEF", "ERROR"}
    /\ Len(response.result.value) >= 2

\* C5 (as claimed): the ranges rename edits are the ranges references
\* returns for the same occurrence.
C5_SameRanges ==
    (Answered("rename") /\ response.result.tag = "Some")
        => Ranges(response.result.value)
             = Ranges(references(documents, response.path, response.pos).value)

\* C5 (amended): references returns the ranges of the wrapper nodes, sigil
\* included, and rename edits the ranges of the identifier nodes of exactly
\* those wrappers.
C5_SameOccurrences ==
    (Answered("rename") /\ response.result.tag = "Some")
        => LET refs == references(documents, response.path, response.pos)
               tree == Doc.tree
               tag == KindTag(Found.kind)
               located == Ranges(refs.value)
           IN  /\ refs.tag = "Some"
               /\ Ranges(response.result.value)
                    = {RangeOf(tree, IdentOf(tree, w)) :
                         w \in {v \in 1..Len(tree) :
                                  /\ tree[v].kind = tag
                                  /\ RangeOf(tree, v) \in located}}
               /\ Len(refs.value) = Len(response.result.value)

C5_Witness ==
    /\ Answered("rename") /\ response.result.tag = "Some"
    /\ FunctionScoped
    /\ Len(response.result.value) >= 2
    /\ Len(references(documents, response.path, response.pos).value) >= 2
    /\ Wrappers(Doc.tree, Doc.text, Found.kind, OldName) \ ScopeWrappers # {}

\* The text after rename(old -> new) and then, with the cursor on the same
\* occurrence, rename(new -> old); << >> with a marker when the second
\* rename is refused.
RoundTrip ==
    LET t1 == ApplyEdits(Doc.text, response.result.value)
        docs1 == update_document(documents, response.path, t1)
        pos1 == TokStart(t1, TokenAt(Doc.text, response.pos)) + 1
        back == rename(docs1, response.path, pos1, OldName)
    IN  IF back.tag = "Some" THEN ApplyEdits(t1, back.value)
        ELSE Layout(<< Kw("refused") >>)

\* C6 (as claimed): rename(old -> new) followed by rename(new -> old) on the
\* same occurrence restores the text, for every new name, also one already
\* used by another symbol of the kind in the scope.
C6_RoundTrip ==
    (Answered("rename") /\ response.result.tag = "Some")
        => RoundTrip = Doc.text

\* The new name is taken: it differs from the old name and a symbol of the
\* same kind in the scope of the rename already has it.
NewNameTaken ==
    /\ response.new_name # OldName
    /\ \E w \in Wrappers(Doc.tree, Doc.text, Found.kind, response.new_name) :
          Found.kind \in {"Local", "Label"} =>
              EnclosingFuncdefs(Doc.tree, w) = EnclosingFuncdefs(Doc.tree, Found.node)

\* C6 (amended): the round trip restores the text when the new name is the
\* old name or is not yet the name of a symbol of the same kind in the scope
\* of the rename.
C6_RoundTripFresh ==
    (Answered("rename") /\ response.result.tag = "Some" /\ ~NewNameTaken)
        => RoundTrip = Doc.text

C6_Witness ==
    /\ Answered("rename") /\ response.result.tag = "Some"
    /\ ~NewNameTaken
    /\ response.new_name # OldName
    /\ Len(response.result.value) >= 2
    /\ ApplyEdits(Doc.text, response.result.value) # Doc.text
    /\ RoundTrip = Doc.text

\* The defining sites of the cursor's Local or Label in its function: an
\* instruction's assignment or a parameter for a Local, a block's label for
\* a Label.
DefiningSites ==
    {w \in ScopeWrappers :
        LET parent == Doc.tree[Doc.tree[w].parent]
        IN  IF Found.kind = "Local"
            THEN \/ parent.kind = "INST" /\ Doc.tree[w].field = "assignment"
                 \/ parent.kind = "FUNCDEF_PARAM" /\ Doc.tree[w].field = "name"
            ELSE parent.kind = "BLOCK" /\ Doc.tree[w].field = "label"}

\* C7 (as claimed): goto_definition on a Local or Label returns every
\* defining site of that kind and name in the enclosing FUNCDEF, before or
\* after the cursor, and no site outside it.
C7_AllDefiningSites ==
    (Answered("goto_definition") /\ FunctionScoped /\ InFunction)
        => Ranges(response.result.value)
             = {RangeOf(Doc.tree, w) : w \in DefiningSites}

\* C8: for a Local or Label with no FUNCDEF above it, rename is refused with
\* the invalid-params error and no edits, goto_definition and references
\* answer Ok(None), and the store is as it was.
C8_State ==
    (Doc.present /\ FunctionScoped /\ ~InFunction)
        => /\ response.op = "rename" => response.result = Err("InvalidParams")
           /\ response.op \in {"references", "goto_definition"}
                => response.result = OkNone

C8_NoEnclosingScope ==
    /\ []C8_State
    /\ [][response'.op \in Requests => documents' = documents]_vars

C8_Witness ==
    /\ Answered("rename") /\ FunctionScoped /\ ~InFunction
    /\ response.result = Err("InvalidParams")
    /\ Len(Doc.text) > 3

-----------------------------------------------------------------------------
(* Concurrent use: handlers in flight together (SpecStore).  A handler    *)
(* runs without interruption up to an await: documents.lock().await, and  *)
(* in rename client.log_message(..).await, which rename reaches with the  *)
(* lock held.  The tokio Mutex serves its waiters first come first        *)
(* served.                                                                *)

\* $g  and  %x $g
StoreTexts == { Layout(<< Glo("g") >>), Layout(<< Loc("x"), Glo("g") >>) }

StorePositions == {0, 4}

StoreNewName == "zzz"

Waiting(op, path, text, tree, pos, new_name) ==
    [text |-> text, pc |-> "waiting", tree |-> tree, pos |-> pos,
     path |-> path, new_name |-> new_name, op |-> op, seen |-> NoDoc]

\* The handler reaches documents.lock().await and queues on the mutex.
Queue(h, state) ==
    /\ handler[h].pc = "idle"
    /\ handler' = [handler EXCEPT ![h] = state]
    /\ waiters' = Append(waiters, h)
    /\ UNCHANGED <<documents, response, mutex, lastEvent>>

\* did_open up to the lock: update_document has parsed the text.
RecvDidOpen(h, path, text) ==
    Queue(h, Waiting("did_open", path, text, Parse(text), 0, ""))

\* did_change up to the lock: update_document has parsed the first change.
RecvDidChange(h, path, content_changes) ==
    Queue(h, Waiting("did_change", path, ChangedText(content_changes),
                     Parse(ChangedText(content_changes)), 0, ""))

\* did_close up to the lock.
RecvDidClose(h, path) ==
    Queue(h, Waiting("did_close", path, << >>, << >>, 0, ""))

\* prepare_rename, rename, references or goto_definition up to the lock.
RecvRequest(h, op, path, pos, new_name) ==
    Queue(h, Waiting(op, path, << >>, << >>, pos, new_name))

\* Faulty variant: the lock is granted while another handler holds it.
CanLockHeld(h) ==
    /\ handler[h].pc = "waiting"
    /\ waiters # << >>
    /\ Head(waiters) = h

\* documents.lock().await returns for the first waiter when the mutex is free.
CanLock(h) ==
    /\ handler[h].pc = "waiting"
    /\ waiters # << >>
    /\ Head(waiters) = h
    /\ mutex = Free

\* update_document after the lock: the parsed pair is inserted and the
\* guard dropped.
InsertDocument(h) ==
    /\ CanLock(h)
    /\ handler[h].op \in {"did_open", "did_change"}
    /\ documents' = insert_document(documents, handler[h].path,
                                    handler[h].text, handler[h].tree)
    /\ lastEvent' = [lastEvent EXCEPT ![handler[h].path] = Updated(handler[h].text)]
    /\ waiters' = Tail(waiters)
    /\ handler' = [handler EXCEPT ![h] = Idle]
    /\ UNCHANGED <<response, mutex>>

\* did_close after the lock.
RemoveDocument(h) ==
    /\ CanLock(h)
    /\ handler[h].op = "did_close"
    /\ documents' = remove_document(documents, handler[h].path)
    /\ lastEvent' = [lastEvent EXCEPT ![handler[h].path] = Closed]
    /\ waiters' = Tail(waiters)
    /\ handler' = [handler EXCEPT ![h] = Idle]
    /\ UNCHANGED <<response, mutex>>

ResponseOf(h, result) ==
    [pos |-> handler[h].pos, path |-> handler[h].path,
     new_name |-> handler[h].new_name, op |-> handler[h].op, result |-> result]

\* prepare_rename, references and goto_definition after the lock: no await
\* is left, the reply is computed and the guard dropped.
Answer(h) ==
    /\ CanLock(h)
    /\ handler[h].op \in Requests \ {"rename"}
    /\ response' = ResponseOf(h, Handle(handler[h].op, documents, handler[h].path,
                                        handler[h].pos, ""))
    /\ waiters' = Tail(waiters)
    /\ handler' = [handler EXCEPT ![h] = Idle]
    /\ UNCHANGED <<documents, mutex, lastEvent>>

\* rename returns before its log_message: no document, no identifier under
\* the cursor, or no scope.
RenameReturnsEarly(h) ==
    rename(documents, handler[h].path, handler[h].pos, handler[h].new_name).tag
        = "Err"

\* rename after the lock, up to client.log_message(..).await: it has read
\* the document's tree and text and keeps the guard.
RenameLock(h) ==
    /\ CanLock(h)
    /\ handler[h].op = "rename"
    /\ waiters' = Tail(waiters)
    /\ IF RenameReturnsEarly(h)
       THEN /\ response' = ResponseOf(h, rename(documents, handler[h].path,
                                               handler[h].pos, handler[h].new_name))
            /\ handler' = [handler EXCEPT ![h] = Idle]
            /\ UNCHANGED mutex
       ELSE /\ mutex' = h
            /\ handler' = [handler EXCEPT ![h].pc = "logging",
                                          ![h].seen = documents[handler[h].path]]
            /\ UNCHANGED response
    /\ UNCHANGED <<documents, lastEvent>>

\* rename after its log_message: the walk over the document the guard
\* still refers to, the reply, and the guard dropped.
RenameFinish(h) ==
    /\ handler[h].pc = "logging"
    /\ response' = ResponseOf(h, rename(documents, handler[h].path,
                                        handler[h].pos, handler[h].new_name))
    /\ mutex' = Free
    /\ handler' = [handler EXCEPT ![h] = Idle]
    /\ UNCHANGED <<documents, waiters, lastEvent>>

\* rename that finds the mutex free: from the lock to an early return, or
\* to client.log_message(..).await, where it is suspended with the guard
\* kept.
RenameBegin(h, path, pos, new_name) ==
    /\ response = NoResponse
    /\ Uncontended
    /\ handler[h].pc = "idle"
    /\ LET result == rename(documents, path, pos, new_name)
       IN  IF result.tag = "Err"
           THEN /\ response' = [pos |-> pos, path |-> path, new_name |-> new_name,
                                op |-> "rename", result |-> result]
                /\ UNCHANGED <<mutex, handler>>
           ELSE /\ mutex' = h
                /\ handler' = [handler EXCEPT ![h] =
                                  [text |-> << >>, pc |-> "logging", tree |-> << >>,
                                   pos |-> pos, path |-> path, new_name |-> new_name,
                                   op |-> "rename", seen |-> documents[path]]]
                /\ UNCHANGED response
    /\ UNCHANGED <<documents, waiters, lastEvent>>

\* A rename is suspended in its log_message and holds the mutex.
Held == mutex # Free

\* What is received while a rename is suspended: the texts of a did_open
\* or did_change, and the requests with their cursors.
QueuedTexts == {Layout(Stray)}
QueuedRequests == {"references"}
QueuedPositions == {0}

Next ==
    \/ \E text \in Texts : DidOpen(CorePath, text)
    \/ \E changes \in ContentChanges(Texts) : DidChange(CorePath, changes)
    \/ DidClose(CorePath)
    \/ \E op \in Requests \ {"rename"} :
         \E pos \in Positions(documents[CorePath].text) :
            Request(op, CorePath, pos, "")
    \/ \E pos \in Positions(documents[CorePath].text), new_name \in NewNames :
            RenameBegin("h1", CorePath, pos, new_name)
    \/ RenameFinish("h1")
    \/ \E text \in QueuedTexts : Held /\ RecvDidOpen("h2", CorePath, text)
    \/ \E text \in QueuedTexts : Held /\ RecvDidChange("h2", CorePath, << text >>)
    \/ Held /\ RecvDidClose("h2", CorePath)
    \/ \E op \in QueuedRequests, pos \in QueuedPositions :
            Held /\ RecvRequest("h2", op, CorePath, pos, "")
    \/ response = NoResponse /\ InsertDocument("h2")
    \/ response = NoResponse /\ RemoveDocument("h2")
    \/ response = NoResponse /\ Answer("h2")
    \/ Reply

Spec == Init /\ [][Next]_vars

NextStore ==
    \/ \E h \in Slots, path \in Paths, text \in StoreTexts :
          RecvDidOpen(h, path, text)
    \/ \E h \in Slots, path \in Paths, changes \in ContentChanges(StoreTexts) :
          RecvDidChange(h, path, changes)
    \/ \E h \in Slots, path \in Paths : RecvDidClose(h, path)
    \/ \E h \in Slots, path \in Paths, pos \in StorePositions :
          \E op \in Requests \ {"rename"} : RecvRequest(h, op, path, pos, "")
    \/ \E h \in Slots, path \in Paths, pos \in StorePositions :
          RecvRequest(h, "rename", path, pos, StoreNewName)
    \/ \E h \in Slots : InsertDocument(h)
    \/ \E h \in Slots : RemoveDocument(h)
    \/ \E h \in Slots : Answer(h)
    \/ \E h \in Slots : RenameLock(h)
    \/ \E h \in Slots : RenameFinish(h)

SpecStore == Init /\ [][NextStore]_vars

-----------------------------------------------------------------------------
(* Claims on the concurrent specification *)

\* C9: under every interleaving of did_open, did_change and did_close with
\* requests in flight, the tree a request reads is the parse of the text it
\* reads, and the pair it read first is the pair it reads to its end.
C9_ConsistentSnapshot ==
    /\ \A p \in Paths :
          documents[p].present => documents[p].tree = Parse(documents[p].text)
    /\ \A h \in Slots :
          handler[h].pc = "logging"
              => /\ documents[handler[h].path] = handler[h].seen
                 /\ handler[h].seen.tree = Parse(handler[h].seen.text)

C9_Witness ==
    \E h, g \in Slots :
        /\ handler[h].pc = "logging"
        /\ handler[g].pc = "waiting"
        /\ handler[g].op \in {"did_open", "did_change"}
        /\ handler[g].path = handler[h].path
        /\ handler[g].text # handler[h].seen.text

\* The store holds a snapshot for a path exactly when the last event of the
\* path was an open or a change, and the snapshot is of that event's text.
C10_State ==
    \A p \in Paths :
        /\ documents[p].present <=> lastEvent[p].kind = "update"
        /\ documents[p].present => documents[p].text = lastEvent[p].text

\* A request leaves the lock queue for a path that has no snapshot.
AnsweredMissing(h) ==
    /\ handler[h].pc = "waiting"
    /\ handler[h].op \in Requests
    /\ handler'[h].pc # "waiting"
    /\ ~documents[handler[h].path].present

\* C10: after any sequence of opens, changes and closes the store holds a
\* snapshot for a file exactly when its last event was an open or a change,
\* with that event's text; a request on a file with no snapshot is refused
\* with an internal error and leaves the store as it was.
C10_StoreFollowsEvents ==
    /\ []C10_State
    /\ [][\A h \in Slots : AnsweredMissing(h)
              => /\ response' = ResponseOf(h, Err("InternalError"))
                 /\ documents' = documents]_vars

C10_Witness ==
    /\ response.result = Err("InternalError")
    /\ response.op = "rename"
    /\ lastEvent[response.path].kind = "close"
    /\ ~documents[response.path].present
    /\ \E p \in Paths : documents[p].present

=============================================================================
